---- MODULE Spec2Model ----
(***************************************************************************)
(* krpc-telemetry: the stream layer (krpc_streams.py: KrpcTelemetryStream, *)
(* KrpcTelemetryStreamCollection, KrpcTelemetryStreamFactory) and the      *)
(* sampling layer (telemetry/strategy.py: TelemetryStrategy,               *)
(* OrbitalVelocityStrategy).                                               *)
(*                                                                         *)
(* The two layers share no state.  Spec is the stream layer driven by an   *)
(* arbitrary caller and by the transport's push-updates; SpecValue is the  *)
(* stream layer with a handle of any kind read after any raw value;        *)
(* SpecStrategy is one strategy object fed arbitrary snapshots.            *)
(*                                                                         *)
(* Numbers read from feeds are kept in thousandths (12.99 is 12990), so    *)
(* that floor and round act on exact values.                               *)
(***************************************************************************)
EXTENDS Integers, Sequences, FiniteSets, TLC

VARIABLES
    feeds,                      \* transport: the streams add_stream has made
    flightCalls,                \* transport: number of vessel.flight() calls
    handles,                    \* every KrpcTelemetryStream constructed so far
    _streams,                   \* KrpcTelemetryStreamCollection._streams (in insertion order)
    _orbit_reference_fight,     \* KrpcTelemetryStreamFactory._orbit_reference_fight
    _vessel_reference_flight,   \* KrpcTelemetryStreamFactory._vessel_reference_flight
    lastOp,                     \* the last event on the stream layer: a call and its outcome, or a push-update
    offered,                    \* history: the handles passed to register_telemetry
    kept,                       \* history: handles register_telemetry stored
    phase,                      \* history: where the caller is in the register/start/destroy protocol
    _collect_every_secs,        \* TelemetryStrategy._collect_every_secs
    _lastMet,                   \* TelemetryStrategy._lastMet
    _dataframe,                 \* TelemetryStrategy._dataframe, a sequence of rows
    fig,                        \* OrbitalVelocityStrategy.fig
    lastCall,                   \* the last TelemetryStrategy.collect_data call and its outcome
    accepted,                   \* history: the mets that passed the decimation test
    nonNeg,                     \* history: every met passed so far was >= 0
    exIdx                       \* history: how much of ExampleMets the calls so far spell out

streamVars == <<feeds, flightCalls, handles, _streams, _orbit_reference_fight,
                _vessel_reference_flight, lastOp, offered, kept, phase>>
strategyVars == <<_collect_every_secs, _lastMet, _dataframe, fig, lastCall,
                  accepted, nonNeg, exIdx>>
vars == <<feeds, flightCalls, handles, _streams, _orbit_reference_fight,
          _vessel_reference_flight, lastOp, offered, kept, phase,
          _collect_every_secs, _lastMet, _dataframe, fig, lastCall,
          accepted, nonNeg, exIdx>>

(***************************************************************************)
(* Bounds                                                                  *)
(***************************************************************************)
MaxFeeds == 2       \* add_stream calls explored
MaxMet == 10        \* largest met passed to a strategy
MaxRows == 3        \* accepted samples explored per strategy
MaxValueFeeds == 1  \* add_stream calls explored when every kind is created

(***************************************************************************)
(* Telemetry kinds                                                         *)
(***************************************************************************)
TelemetryType ==
    {"MET", "ORBITAL_SPEED", "SURFACE_SPEED", "SURFACE_HORIZONTAL_SPEED",
     "SURFACE_VERTICAL_SPEED", "ORBITAL_APOAPSIS", "ORBITAL_PERIAPSIS", "G_FORCE",
     "CENTER_OF_MASS", "ATMOSPHERE_DENSITY", "DYNAMIC_PRESSURE", "STATIC_PRESSURE",
     "AERODYNAMIC_FORCE"}

\* A value that is no member of the enumeration.
UnknownKinds == {"NOT_A_TELEMETRY"}

\* The kinds the caller asks the factory for: one per shape of recipe
\* (vessel attribute with floor, orbit attribute with round, flight-frame
\* attribute without transform), and one outside the enumeration.
CreateKinds == {"MET", "ORBITAL_SPEED", "CENTER_OF_MASS"} \cup UnknownKinds

None == "None"

(***************************************************************************)
(* Program constants                                                       *)
(***************************************************************************)
default_rate == 1           \* KrpcTelemetryStreamFactory.__init__ default

\* Raw values the transport pushes, in thousandths: 12.99 and 1.25
RawValues == {12990, 1250}

(***************************************************************************)
(* KrpcTelemetryStreamFactory.create: the per-kind transforms              *)
(***************************************************************************)
\* math.floor(value)
floor(value) == (value \div 1000) * 1000

\* Python's round(): to the nearest multiple of unit, a tie going to the even
\* multiple.  (Exact for the values used here: a multiple of unit, a value off
\* any tie, or a tie a binary float holds exactly, such as x.25 and x.75.)
round_half_even(value, unit) ==
    LET q == value \div unit
        r == value % unit
    IN  IF 2 * r < unit THEN q * unit
        ELSE IF 2 * r > unit THEN (q + 1) * unit
        ELSE IF q % 2 = 0 THEN q * unit
        ELSE (q + 1) * unit

\* round(value, 1)
round1(value) == round_half_even(value, 100)

\* round(value, 0), the division left out
round_km_without_division(value) == round_half_even(value, 1000)

\* round(value/1000, 0)
round_km(value) == round_half_even(value, 1000000) \div 1000

\* transform_function(x), the lambda named by tf
apply_transform(tf, x) ==
    CASE tf = "floor" -> floor(x)
      [] tf = "round1" -> round1(x)
      [] tf = "round_km" -> round_km(x)

\* The branch of create taken for a kind: the object and attribute handed to
\* add_stream and the transform given to the handle; matched is FALSE when no
\* branch is taken and create falls through to the raise.
recipe(telemetry_type) ==
    CASE telemetry_type = "MET" ->
            [obj |-> "vessel", attr |-> "met", transform |-> "floor",
             matched |-> TRUE]
      [] telemetry_type = "ORBITAL_SPEED" ->
            [obj |-> "vessel.orbit", attr |-> "speed", transform |-> "round1",
             matched |-> TRUE]
      [] telemetry_type = "SURFACE_SPEED" ->
            [obj |-> "orbit_reference_fight", attr |-> "speed", transform |-> "round1",
             matched |-> TRUE]
      [] telemetry_type = "SURFACE_HORIZONTAL_SPEED" ->
            [obj |-> "orbit_reference_fight", attr |-> "horizontal_speed", transform |-> "round1",
             matched |-> TRUE]
      [] telemetry_type = "SURFACE_VERTICAL_SPEED" ->
            [obj |-> "orbit_reference_fight", attr |-> "vertical_speed", transform |-> "round1",
             matched |-> TRUE]
      [] telemetry_type = "ORBITAL_APOAPSIS" ->
            [obj |-> "vessel.orbit", attr |-> "apoapsis_altitude", transform |-> "round_km",
             matched |-> TRUE]
      [] telemetry_type = "ORBITAL_PERIAPSIS" ->
            [obj |-> "vessel.orbit", attr |-> "periapsis_altitude", transform |-> "round_km",
             matched |-> TRUE]
      [] telemetry_type = "G_FORCE" ->
            [obj |-> "orbit_reference_fight", attr |-> "g_force", transform |-> "round1",
             matched |-> TRUE]
      [] telemetry_type = "CENTER_OF_MASS" ->
            [obj |-> "orbit_reference_fight", attr |-> "center_of_mass", transform |-> None,
             matched |-> TRUE]
      [] telemetry_type = "ATMOSPHERE_DENSITY" ->
            [obj |-> "orbit_reference_fight", attr |-> "atmosphere_density", transform |-> None,
             matched |-> TRUE]
      [] telemetry_type = "DYNAMIC_PRESSURE" ->
            [obj |-> "orbit_reference_fight", attr |-> "dynamic_pressure", transform |-> None,
             matched |-> TRUE]
      [] telemetry_type = "STATIC_PRESSURE" ->
            [obj |-> "orbit_reference_fight", attr |-> "static_pressure", transform |-> None,
             matched |-> TRUE]
      [] telemetry_type = "AERODYNAMIC_FORCE" ->
            [obj |-> "orbit_reference_fight", attr |-> "aerodynamic_force", transform |-> None,
             matched |-> TRUE]
      [] OTHER ->
            [obj |-> None, attr |-> None, transform |-> None,
             matched |-> FALSE]

(***************************************************************************)
(* What a call leaves behind for the caller                                *)
(***************************************************************************)
\* op: the method; kind, handle: its argument; returned: the handle returned
\* (0: none); snapshot: the mapping returned; raised: the exception that left
\* the call; called: the handles whose start() or destroy() the call invoked.
\* Every action of the stream layer leaves its own op here, so a step is a
\* call of op exactly when lastOp'.op = op.
\* Filled in by the calls they concern, empty otherwise: events, what the call
\* did in the order it did it; declared, the kinds a processor declared; made,
\* the feeds the call opened at the transport.
Outcome(op, kind, handle, returned, snapshot, raised, called) ==
    [op |-> op, kind |-> kind, handle |-> handle, returned |-> returned,
     snapshot |-> snapshot, raised |-> raised, called |-> called,
     events |-> <<>>, declared |-> {}, made |-> {}]

(***************************************************************************)
(* KrpcTelemetryStream                                                     *)
(***************************************************************************)
\* __init__: keeps its arguments and sets the stream's rate
KrpcTelemetryStream(telemetry_type, stream, rate, transform_function) ==
    [telemetry_type |-> telemetry_type, stream |-> stream, rate |-> rate,
     transform_function |-> transform_function]

\* self._stream(): the value the feed holds now
stream_read(f) == feeds[f].val

\* value without the transform applied
value_untransformed(h) == stream_read(handles[h].stream)

\* the value property
value(h) ==
    IF handles[h].transform_function # None
    THEN apply_transform(handles[h].transform_function, stream_read(handles[h].stream))
    ELSE stream_read(handles[h].stream)

\* start(), as it acts on the transport's feeds.  A feed's start() calls are
\* counted as 0, 1 or 2, 2 standing for twice or more.
start(fs, h) ==
    [fs EXCEPT ![handles[h].stream].started = IF @ < 2 THEN @ + 1 ELSE @]

\* destroy() that does not reach the stream
destroy_skipped(fs, h) == fs

\* destroy(), as it acts on the transport's feeds
destroy(fs, h) ==
    [fs EXCEPT ![handles[h].stream].removed = @ + 1]

(***************************************************************************)
(* KrpcTelemetryStreamFactory                                              *)
(***************************************************************************)
\* conn.add_stream(getattr, obj, attr), then the handle's constructor setting
\* the rate.  Until its first push-update the feed holds the transport's
\* default, 0.
add_stream(obj, attr, rate) ==
    Append(feeds, [accessor |-> <<obj, attr>>, rate |-> rate, started |-> 0,
                   removed |-> 0, val |-> 0])

\* The frames computed by every create, with no presence check
compute_frames_every_call ==
    /\ _orbit_reference_fight' = "flight(orbit.body.reference_frame)"
    /\ _vessel_reference_flight' = "flight(vessel.reference_frame)"
    /\ flightCalls' = flightCalls + 2

\* Lines 79-81: the two flight frames are computed when the first is unset.
compute_frames ==
    IF _orbit_reference_fight = None
    THEN /\ _orbit_reference_fight' = "flight(orbit.body.reference_frame)"
         /\ _vessel_reference_flight' = "flight(vessel.reference_frame)"
         /\ flightCalls' = flightCalls + 2
    ELSE UNCHANGED <<_orbit_reference_fight, _vessel_reference_flight, flightCalls>>

\* create with a catch-all last branch in place of the raise
create_catch_all(telemetry_type) ==
    /\ IF _orbit_reference_fight = None
       THEN /\ _orbit_reference_fight' = "flight(orbit.body.reference_frame)"
            /\ _vessel_reference_flight' = "flight(vessel.reference_frame)"
            /\ flightCalls' = flightCalls + 2
       ELSE UNCHANGED <<_orbit_reference_fight, _vessel_reference_flight, flightCalls>>
    /\ Len(feeds) < MaxFeeds
    /\ feeds' = add_stream(recipe(telemetry_type).obj, recipe(telemetry_type).attr,
                           default_rate)
    /\ handles' = Append(handles,
            KrpcTelemetryStream(telemetry_type, Len(feeds) + 1, default_rate,
                                recipe(telemetry_type).transform))
    /\ lastOp' = Outcome("create", telemetry_type, 0, Len(handles) + 1, <<>>, None, {})
    /\ UNCHANGED <<_streams, offered, kept, phase>>
    /\ UNCHANGED <<_collect_every_secs, _lastMet, _dataframe, fig, lastCall,
                   accepted, nonNeg, exIdx>>

create(telemetry_type) ==
    /\ compute_frames
    /\ IF recipe(telemetry_type).matched
       THEN /\ Len(feeds) < MaxFeeds
            /\ feeds' = add_stream(recipe(telemetry_type).obj,
                                   recipe(telemetry_type).attr, default_rate)
            /\ handles' = Append(handles,
                    KrpcTelemetryStream(telemetry_type, Len(feeds) + 1, default_rate,
                                        recipe(telemetry_type).transform))
            /\ lastOp' = Outcome("create", telemetry_type, 0, Len(handles) + 1,
                                 <<>>, None, {})
       ELSE /\ lastOp' = Outcome("create", telemetry_type, 0, 0, <<>>, "ValueError", {})
            /\ UNCHANGED <<feeds, handles>>
    /\ UNCHANGED <<_streams, offered, kept, phase>>
    /\ UNCHANGED strategyVars

(***************************************************************************)
(* KrpcTelemetryStreamCollection                                           *)
(***************************************************************************)
\* self._streams.keys()
keys == {handles[_streams[i]].telemetry_type : i \in 1..Len(_streams)}

\* self._streams.values()
values == {_streams[i] : i \in 1..Len(_streams)}

has_telemetry(telemetry_type) == telemetry_type \in keys

\* The protocol position after a call: register while building, one start,
\* one destroy; any other order is "misused".
next_phase(op) ==
    CASE op = "register_telemetry" /\ phase = "building" -> "building"
      [] op = "start_telemetries" /\ phase = "building" -> "started"
      [] op = "destroy_telemetries" /\ phase = "started" -> "destroyed"
      [] OTHER -> "misused"

\* register_telemetry without the membership test: the last registration wins
register_telemetry_last_wins(telemetry) ==
    /\ feeds[handles[telemetry].stream].removed = 0
    /\ IF handles[telemetry].telemetry_type \notin keys
       THEN _streams' = Append(_streams, telemetry)
       ELSE _streams' = [i \in 1..Len(_streams) |->
                            IF handles[_streams[i]].telemetry_type
                                   = handles[telemetry].telemetry_type
                            THEN telemetry ELSE _streams[i]]
    /\ kept' = kept \cup {telemetry}
    /\ offered' = offered \cup {telemetry}
    /\ phase' = next_phase("register_telemetry")
    /\ lastOp' = Outcome("register_telemetry", handles[telemetry].telemetry_type,
                         telemetry, 0, <<>>, None, {})
    /\ UNCHANGED <<feeds, flightCalls, handles, _orbit_reference_fight,
                   _vessel_reference_flight>>
    /\ UNCHANGED <<_collect_every_secs, _lastMet, _dataframe, fig, lastCall,
                   accepted, nonNeg, exIdx>>

\* A handle that has been destroyed is not passed again (its use is undefined).
register_telemetry(telemetry) ==
    /\ feeds[handles[telemetry].stream].removed = 0
    /\ IF handles[telemetry].telemetry_type \notin keys
       THEN /\ _streams' = Append(_streams, telemetry)
            /\ kept' = kept \cup {telemetry}
       ELSE UNCHANGED <<_streams, kept>>
    /\ offered' = offered \cup {telemetry}
    /\ phase' = next_phase("register_telemetry")
    /\ lastOp' = Outcome("register_telemetry", handles[telemetry].telemetry_type,
                         telemetry, 0, <<>>, None, {})
    /\ UNCHANGED <<feeds, flightCalls, handles, _orbit_reference_fight,
                   _vessel_reference_flight>>
    /\ UNCHANGED strategyVars

\* for telemetry in self._streams.values(): telemetry.start()
RECURSIVE start_loop(_, _)
start_loop(fs, i) ==
    IF i > Len(_streams) THEN fs ELSE start_loop(start(fs, _streams[i]), i + 1)

\* What the loop of start_telemetries does, in order
RECURSIVE start_events(_, _)
start_events(events, i) ==
    IF i > Len(_streams) THEN events
    ELSE start_events(Append(events, [event |-> "start", handle |-> _streams[i]]), i + 1)

\* sleep(2)
sleep == [event |-> "sleep", handle |-> 0]

\* start_telemetries that sleeps before it starts the handles
start_telemetries_sleeps_first ==
    /\ feeds' = start_loop(feeds, 1)
    /\ phase' = next_phase("start_telemetries")
    /\ lastOp' = [Outcome("start_telemetries", "-", 0, 0, <<>>, None, values)
                     EXCEPT !.events = start_events(<<sleep>>, 1)]
    /\ UNCHANGED <<flightCalls, handles, _streams, _orbit_reference_fight,
                   _vessel_reference_flight, offered, kept>>
    /\ UNCHANGED <<_collect_every_secs, _lastMet, _dataframe, fig, lastCall,
                   accepted, nonNeg, exIdx>>

\* The loop, then sleep(2).
start_telemetries ==
    /\ feeds' = start_loop(feeds, 1)
    /\ phase' = next_phase("start_telemetries")
    /\ lastOp' = [Outcome("start_telemetries", "-", 0, 0, <<>>, None, values)
                     EXCEPT !.events = Append(start_events(<<>>, 1), sleep)]
    /\ UNCHANGED <<flightCalls, handles, _streams, _orbit_reference_fight,
                   _vessel_reference_flight, offered, kept>>
    /\ UNCHANGED strategyVars

\* The loop that ends after its first handle
destroy_loop_first_only(fs, i) ==
    IF i > Len(_streams) THEN fs ELSE destroy(fs, _streams[i])

\* for telemetry in self._streams.values(): telemetry.destroy()
RECURSIVE destroy_loop(_, _)
destroy_loop(fs, i) ==
    IF i > Len(_streams) THEN fs ELSE destroy_loop(destroy(fs, _streams[i]), i + 1)

\* destroy_telemetries without the clear()
destroy_telemetries_no_clear ==
    /\ \A h \in values : feeds[handles[h].stream].removed = 0
    /\ feeds' = destroy_loop(feeds, 1)
    /\ phase' = next_phase("destroy_telemetries")
    /\ lastOp' = Outcome("destroy_telemetries", "-", 0, 0, <<>>, None, values)
    /\ UNCHANGED <<flightCalls, handles, _streams, _orbit_reference_fight,
                   _vessel_reference_flight, offered, kept>>
    /\ UNCHANGED <<_collect_every_secs, _lastMet, _dataframe, fig, lastCall,
                   accepted, nonNeg, exIdx>>

\* The loop, then self._streams.clear().
destroy_telemetries ==
    /\ feeds' = destroy_loop(feeds, 1)
    /\ _streams' = <<>>
    /\ phase' = next_phase("destroy_telemetries")
    /\ lastOp' = Outcome("destroy_telemetries", "-", 0, 0, <<>>, None, values)
    /\ UNCHANGED <<flightCalls, handles, _orbit_reference_fight,
                   _vessel_reference_flight, offered, kept>>
    /\ UNCHANGED strategyVars

\* results[key] = v
dict_set(results, key, v) ==
    [k \in DOMAIN results \cup {key} |-> IF k = key THEN v ELSE results[k]]

\* for telemetry in self._streams.values(): results[telemetry.telemetry_type] = telemetry.value
RECURSIVE collect_loop(_, _)
collect_loop(results, i) ==
    IF i > Len(_streams) THEN results
    ELSE collect_loop(dict_set(results, handles[_streams[i]].telemetry_type,
                               value(_streams[i])), i + 1)

collect_data ==
    /\ lastOp' = Outcome("collect_data", "-", 0, 0, collect_loop(<<>>, 1), None, {})
    /\ UNCHANGED <<feeds, flightCalls, handles, _streams, _orbit_reference_fight,
                   _vessel_reference_flight, offered, kept, phase>>
    /\ UNCHANGED strategyVars

(***************************************************************************)
(* init_streams_from_telemetry_processor                                   *)
(***************************************************************************)
\* What processor.get_telemetry_types() may return: the kinds
\* OrbitalVelocityStrategy declares, and a declaration holding a value
\* outside the enumeration.
DeclaredTypes == {{"MET", "ORBITAL_SPEED"}, {"MET", "NOT_A_TELEMETRY"}}

\* The orders in which a for loop may visit a set.
Orders(S) ==
    {order \in [1..Cardinality(S) -> S] :
        \A i \in 1..Cardinality(S) : \A j \in 1..Cardinality(S) :
            i # j => order[i] # order[j]}

\* The loop body that makes the handle and does not register it
init_streams_step_unregistered(s, telemetry_type) ==
    IF ~recipe(telemetry_type).matched
    THEN [s EXCEPT !.raised = "ValueError"]
    ELSE [s EXCEPT
            !.feeds = Append(s.feeds,
                [accessor |-> <<recipe(telemetry_type).obj, recipe(telemetry_type).attr>>,
                 rate |-> default_rate, started |-> 0, removed |-> 0, val |-> 0]),
            !.handles = Append(s.handles,
                KrpcTelemetryStream(telemetry_type, Len(s.feeds) + 1, default_rate,
                                    recipe(telemetry_type).transform))]

\* The loop body, result.register_telemetry(factory.create(telemetry_type)),
\* on s: the transport's feeds, the handles made, the _streams of result and
\* the exception raised so far.
init_streams_step(s, telemetry_type) ==
    IF ~recipe(telemetry_type).matched
    THEN [s EXCEPT !.raised = "ValueError"]
    ELSE [feeds |-> Append(s.feeds,
                [accessor |-> <<recipe(telemetry_type).obj, recipe(telemetry_type).attr>>,
                 rate |-> default_rate, started |-> 0, removed |-> 0, val |-> 0]),
          handles |-> Append(s.handles,
                KrpcTelemetryStream(telemetry_type, Len(s.feeds) + 1, default_rate,
                                    recipe(telemetry_type).transform)),
          result |-> IF \E i \in 1..Len(s.result) :
                            s.handles[s.result[i]].telemetry_type = telemetry_type
                     THEN s.result
                     ELSE Append(s.result, Len(s.handles) + 1),
          raised |-> None]

\* for telemetry_type in processor.get_telemetry_types(), visited as order
\* lists them; an exception ends the loop.
RECURSIVE init_streams_loop(_, _, _)
init_streams_loop(s, order, i) ==
    IF i > Len(order) \/ s.raised # None THEN s
    ELSE init_streams_loop(init_streams_step(s, order[i]), order, i + 1)

\* The registry of the model is the one this call constructs, so the call is
\* made while that registry is as constructed.  When create raises, the
\* exception reaches the caller: result and the handles made for it are
\* dropped with the frame, and the feeds opened for them stay at the
\* transport.
init_streams_from_telemetry_processor(order) ==
    LET done == init_streams_loop([feeds |-> feeds, handles |-> handles,
                                   result |-> <<>>, raised |-> None], order, 1)
        registered == {done.result[i] : i \in 1..Len(done.result)}
    IN  /\ phase = "building"
        /\ _streams = <<>>
        /\ offered = {}
        /\ Len(feeds) + Len(order) <= MaxFeeds
        /\ compute_frames
        /\ feeds' = done.feeds
        /\ IF done.raised = None
           THEN /\ handles' = done.handles
                /\ _streams' = done.result
                /\ offered' = registered
                /\ kept' = registered
           ELSE UNCHANGED <<handles, _streams, offered, kept>>
        /\ lastOp' = [Outcome("init_streams_from_telemetry_processor", "-", 0, 0,
                              <<>>, done.raised, {})
                         EXCEPT !.declared = {order[i] : i \in 1..Len(order)},
                                !.made = (Len(feeds) + 1)..Len(done.feeds)]
        /\ UNCHANGED phase
        /\ UNCHANGED strategyVars

(***************************************************************************)
(* The transport                                                           *)
(***************************************************************************)
\* A push-update: a started, unremoved feed comes to hold a new value.
push_update(f, v) ==
    /\ feeds[f].started > 0
    /\ feeds[f].removed = 0
    /\ feeds[f].val # v
    /\ feeds' = [feeds EXCEPT ![f].val = v]
    /\ lastOp' = Outcome("push_update", "-", 0, 0, <<>>, None, {})
    /\ UNCHANGED <<flightCalls, handles, _streams, _orbit_reference_fight,
                   _vessel_reference_flight, offered, kept, phase>>
    /\ UNCHANGED strategyVars

(***************************************************************************)
(* The stream layer's specification                                        *)
(***************************************************************************)
\* KrpcTelemetryStreamCollection() and KrpcTelemetryStreamFactory(vessel, conn)
\* on a connection with no streams yet.
StreamsIdle ==
    /\ feeds = <<>>
    /\ flightCalls = 0
    /\ handles = <<>>
    /\ _streams = <<>>
    /\ _orbit_reference_fight = None
    /\ _vessel_reference_flight = None
    /\ lastOp = Outcome("__init__", "-", 0, 0, <<>>, None, {})
    /\ offered = {}
    /\ kept = {}
    /\ phase = "building"

\* OrbitalVelocityStrategy(), never called.
StrategyIdle ==
    /\ _collect_every_secs = 5
    /\ _lastMet = -1
    /\ _dataframe = [index_name |-> None, columns |-> <<>>, rows |-> <<>>]
    /\ fig = None
    /\ lastCall = [op |-> "__init__", met |-> -1, passed |-> FALSE, raised |-> None]
    /\ accepted = <<>>
    /\ nonNeg = TRUE
    /\ exIdx = 0

Init == StreamsIdle /\ StrategyIdle

Create == \E telemetry_type \in CreateKinds : create(telemetry_type)
Register == \E telemetry \in 1..Len(handles) : register_telemetry(telemetry)
Start == start_telemetries
Destroy == destroy_telemetries
Collect == collect_data
Push == \E f \in 1..Len(feeds), v \in RawValues : push_update(f, v)
InitStreams ==
    \E types \in DeclaredTypes : \E order \in Orders(types) :
        init_streams_from_telemetry_processor(order)

Next == Create \/ Register \/ Start \/ Destroy \/ Collect \/ Push \/ InitStreams

Spec == Init /\ [][Next]_vars

(***************************************************************************)
(* The stream layer with every kind: one handle made, registered, started, *)
(* fed and read                                                            *)
(***************************************************************************)
\* Raw values the transport pushes here, in thousandths: 12.99, 1234567,
\* 1.25 and 2500.
ValueRaws == {12990, 1234567000, 1250, 2500000}

CreateAnyKind ==
    /\ Len(feeds) < MaxValueFeeds
    /\ \E telemetry_type \in TelemetryType : create(telemetry_type)

PushRaw == \E f \in 1..Len(feeds), v \in ValueRaws : push_update(f, v)

NextValue == CreateAnyKind \/ Register \/ Start \/ PushRaw \/ Collect

SpecValue == Init /\ [][NextValue]_vars

(***************************************************************************)
(* TelemetryStrategy and OrbitalVelocityStrategy                           *)
(***************************************************************************)
\* The collect_every_secs a strategy is built with: the base class default
\* and OrbitalVelocityStrategy's.
EverySecs == {1, 5}

\* The met arguments explored; -1 is the value _lastMet starts at.
Mets == (0 - 2)..MaxMet

\* The orbital speed a snapshot may carry, in thousandths (2200.1).
Speeds == {2200100}

\* The snapshots passed with a met: with the orbital speed, with it and
\* another kind, and without it.
Snapshots(met) ==
    {[k \in {"MET"} |-> met]}
    \cup {[k \in {"MET", "ORBITAL_SPEED"} |-> IF k = "MET" THEN met ELSE v] : v \in Speeds}
    \cup {[k \in {"MET", "ORBITAL_SPEED", "G_FORCE"} |->
              IF k = "MET" THEN met ELSE IF k = "G_FORCE" THEN 1000 ELSE v] : v \in Speeds}

\* What the plotting backend does when called: all of it works, or
\* DataFrame.plot(), fig.show() or fig.batch_update() raises.
SinkBehaviours == {"ok", "plot_raises", "show_raises", "batch_update_raises"}

\* pd.DataFrame(): no index name, no columns, no rows
empty_dataframe == [index_name |-> None, columns |-> <<>>, rows |-> <<>>]

\* OrbitalVelocityStrategy._create_dataframe: the MET index and the
\* ORBITAL_SPEED column, no rows.  (Nothing calls it.)
_create_dataframe ==
    [index_name |-> "MET", columns |-> <<"ORBITAL_SPEED">>, rows |-> <<>>]

\* pd.DataFrame({MET: met, ORBITAL_SPEED: speed}, index=[0]) after
\* set_index(MET): one row indexed by met
collected_data_dataframe(met, speed) ==
    [index_name |-> "MET", columns |-> <<"ORBITAL_SPEED">>,
     rows |-> <<[index |-> met, ORBITAL_SPEED |-> speed]>>]

\* pd.concat([a, b]) of two frames with the same index name and columns
concat(a, b) ==
    [index_name |-> b.index_name, columns |-> b.columns, rows |-> a.rows \o b.rows]

\* The last collect_data call: its met, whether it passed the decimation
\* test, and the exception that left it (None: it returned).
Call(op, met, passed, raised) ==
    [op |-> op, met |-> met, passed |-> passed, raised |-> raised]

\* OrbitalVelocityStrategy._collect_data: the frame and figure it leaves and
\* the exception it ends with.
_collect_data(met, data, sink) ==
    IF "ORBITAL_SPEED" \notin DOMAIN data
    THEN \* line 51: data[TelemetryType.ORBITAL_SPEED]
         [dataframe |-> _dataframe, fig |-> fig, raised |-> "KeyError"]
    ELSE LET new == collected_data_dataframe(met, data["ORBITAL_SPEED"])
             df == IF Len(_dataframe.rows) # 0 THEN concat(_dataframe, new) ELSE new
             first == Len(df.rows) = 1
         IN  IF first /\ sink = "plot_raises"
             THEN [dataframe |-> df, fig |-> fig, raised |-> "SinkError"]
             ELSE LET fig1 == IF first THEN "Figure" ELSE fig
                  IN  IF first /\ sink = "show_raises"
                      THEN [dataframe |-> df, fig |-> fig1, raised |-> "SinkError"]
                      ELSE IF fig1 = None
                      THEN \* self.fig.batch_update() on None
                           [dataframe |-> df, fig |-> fig1, raised |-> "AttributeError"]
                      ELSE IF sink = "batch_update_raises"
                      THEN [dataframe |-> df, fig |-> fig1, raised |-> "SinkError"]
                      ELSE [dataframe |-> df, fig |-> fig1, raised |-> None]

\* The decimation test without the interval
out_of_cadence_without_interval(met) ==
    _lastMet # -1 /\ _lastMet > met

\* The decimation test with >= in place of >
out_of_cadence_inclusive(met) ==
    _lastMet # -1 /\ _collect_every_secs + _lastMet >= met

\* Line 17: the snapshot comes too soon after the last one kept.
out_of_cadence(met) ==
    _lastMet # -1 /\ _collect_every_secs + _lastMet > met

ExampleMets == <<0, 1, 4, 5, 6, 9, 10>>

\* Lines 20-21 of collect_data: the met is recorded, then the variant's
\* _collect_data runs against a sink that behaves as `sink`.
keep_sample(met, data, sink) ==
    LET done == _collect_data(met, data, sink)
    IN  /\ _lastMet' = met
        /\ accepted' = Append(accepted, met)
        /\ _dataframe' = done.dataframe
        /\ fig' = done.fig
        /\ lastCall' = Call("collect_data", met, TRUE, done.raised)

\* collect_data that records the met of a snapshot it rejects
collect_data_records_rejected(met, data) ==
    /\ Len(accepted) < MaxRows
    /\ nonNeg' = (nonNeg /\ met >= 0)
    /\ exIdx' = IF exIdx >= 0 /\ exIdx < Len(ExampleMets) /\ met = ExampleMets[exIdx + 1]
                THEN exIdx + 1 ELSE -1
    /\ IF _lastMet # -1 /\ _collect_every_secs + _lastMet > met
       THEN /\ lastCall' = Call("collect_data", met, FALSE, None)
            /\ _lastMet' = met
            /\ UNCHANGED <<_dataframe, fig, accepted>>
       ELSE \E sink \in SinkBehaviours : keep_sample(met, data, sink)
    /\ UNCHANGED _collect_every_secs
    /\ UNCHANGED <<feeds, flightCalls, handles, _streams, _orbit_reference_fight,
                   _vessel_reference_flight, lastOp, offered, kept, phase>>

\* TelemetryStrategy.collect_data
TelemetryStrategy_collect_data(met, data) ==
    /\ Len(accepted) < MaxRows
    /\ nonNeg' = (nonNeg /\ met >= 0)
    /\ exIdx' = IF exIdx >= 0 /\ exIdx < Len(ExampleMets) /\ met = ExampleMets[exIdx + 1]
                THEN exIdx + 1 ELSE -1
    /\ IF out_of_cadence(met)
       THEN /\ lastCall' = Call("collect_data", met, FALSE, None)
            /\ UNCHANGED <<_lastMet, _dataframe, fig, accepted>>
       ELSE \E sink \in SinkBehaviours : keep_sample(met, data, sink)
    /\ UNCHANGED _collect_every_secs
    /\ UNCHANGED streamVars

(***************************************************************************)
(* The sampling layer's specification                                      *)
(***************************************************************************)
\* TelemetryStrategy.__init__(collect_every_secs) for either interval.
InitStrategy ==
    /\ StreamsIdle
    /\ _collect_every_secs \in EverySecs
    /\ _lastMet = -1
    /\ _dataframe = empty_dataframe
    /\ fig = None
    /\ lastCall = Call("__init__", -1, FALSE, None)
    /\ accepted = <<>>
    /\ nonNeg = TRUE
    /\ exIdx = 0

CollectData ==
    \E met \in Mets : \E data \in Snapshots(met) : TelemetryStrategy_collect_data(met, data)

NextStrategy == CollectData

SpecStrategy == InitStrategy /\ [][NextStrategy]_vars

(***************************************************************************)
(* Properties of the stream layer                                          *)
(***************************************************************************)
kind_of(h) == handles[h].telemetry_type
feed_of(h) == feeds[handles[h].stream]

\* C1: after any sequence of register_telemetry calls the mapping holds
\* exactly one handle per distinct kind registered, and it is the first handle
\* registered for that kind: a kind's first registration stores the handle,
\* and a later registration of a present kind changes nothing.
C1_FirstRegistrationWins ==
    /\ [](phase = "building" =>
            /\ keys = {kind_of(h) : h \in offered}
            /\ Len(_streams) = Cardinality(keys))
    /\ [][(phase' = "building" /\ lastOp'.op = "register_telemetry") =>
            IF \E i \in 1..Len(_streams) : kind_of(_streams[i]) = lastOp'.kind
            THEN _streams' = _streams
            ELSE _streams' = Append(_streams, lastOp'.handle)]_vars

\* A second handle of a kind has been registered and was ignored.
C1_Witness ==
    /\ phase = "building"
    /\ lastOp.op = "register_telemetry"
    /\ lastOp.handle \notin values
    /\ \E h \in values : h # lastOp.handle /\ kind_of(h) = lastOp.kind

\* C4: destroy_telemetries leaves the registry empty: a collect_data that
\* follows returns the empty mapping without raising, has_telemetry is false
\* for every kind, and a further destroy_telemetries on the empty registry
\* calls destroy on no handle and raises nothing.
C4_DestroyEmptiesRegistry ==
    /\ [](lastOp.op = "destroy_telemetries" =>
            /\ _streams = <<>>
            /\ lastOp.raised = None
            /\ collect_loop(<<>>, 1) = <<>>
            /\ \A k \in TelemetryType \cup UnknownKinds : ~has_telemetry(k))
    /\ [][(lastOp.op = "destroy_telemetries" /\ lastOp'.op = "collect_data") =>
            (lastOp'.snapshot = <<>> /\ lastOp'.raised = None)]_vars
    /\ [][(lastOp.op = "destroy_telemetries" /\ lastOp'.op = "destroy_telemetries") =>
            (feeds' = feeds /\ lastOp'.called = {} /\ lastOp'.raised = None)]_vars

\* destroy_telemetries has been called again on a registry it had emptied.
C4_Witness ==
    /\ lastOp.op = "destroy_telemetries"
    /\ lastOp.called = {}
    /\ \E f \in 1..Len(feeds) : feeds[f].removed = 1

\* C5: create fails with a ValueError naming the kind for every kind outside
\* the enumeration, and then makes no add_stream call and returns no handle.
C5_UnknownKindRaises ==
    [][(lastOp'.op = "create" /\ lastOp'.kind \notin TelemetryType) =>
          /\ lastOp'.raised = "ValueError"
          /\ lastOp'.returned = 0
          /\ feeds' = feeds
          /\ handles' = handles]_vars

\* An unknown kind was asked for on a factory that had already made feeds.
C5_Witness ==
    /\ lastOp.op = "create"
    /\ lastOp.kind \notin TelemetryType
    /\ lastOp.raised = "ValueError"
    /\ Len(feeds) > 0

\* C7 as claimed, on the runs most favourable to it (registrations, then one
\* start_telemetries, then the destroy_telemetries that ends the run): every
\* handle passed to register_telemetry has been started exactly once and
\* destroyed exactly once.
C7_StartedAndDestroyedOnce ==
    phase = "destroyed" =>
        \A h \in offered : feed_of(h).started = 1 /\ feed_of(h).removed = 1

\* C7 as amended: when the calls are registrations, then one
\* start_telemetries, then the one destroy_telemetries that ends them, every
\* handle the registry stored has been started exactly once and destroyed
\* exactly once, and every handle ignored as a duplicate kind has had neither
\* start() nor destroy() called.
C7_ProtocolStartedAndDestroyedOnce ==
    phase = "destroyed" =>
        \A h \in offered :
            IF h \in kept
            THEN feed_of(h).started = 1 /\ feed_of(h).removed = 1
            ELSE feed_of(h).started = 0 /\ feed_of(h).removed = 0

\* The protocol has run to its end with one handle stored and one ignored.
C7_Witness ==
    /\ phase = "destroyed"
    /\ lastOp.op = "destroy_telemetries"
    /\ \E h \in offered : h \in kept
    /\ \E h \in offered : h \notin kept

\* C8: collect_data returns a mapping whose keys are exactly the registered
\* kinds and whose value for a kind is the handle's transform (or the value
\* itself when it has none) applied to what the feed holds when it is read,
\* push-updates since the last snapshot included.
C8_SnapshotIsLatest ==
    lastOp.op = "collect_data" =>
        /\ DOMAIN lastOp.snapshot = {kind_of(h) : h \in values}
        /\ \A h \in values :
              lastOp.snapshot[kind_of(h)] =
                  IF handles[h].transform_function = None
                  THEN feed_of(h).val
                  ELSE apply_transform(handles[h].transform_function, feed_of(h).val)

\* A snapshot of two feeds that both hold pushed values, one of them changed
\* by its transform and one passed through.
C8_Witness ==
    /\ lastOp.op = "collect_data"
    /\ \E h \in values :
          /\ feed_of(h).val # 0
          /\ lastOp.snapshot[kind_of(h)] # feed_of(h).val
    /\ \E h \in values :
          /\ feed_of(h).val # 0
          /\ handles[h].transform_function = None

\* The kinds whose branch of create reads a flight frame.
NeedsFrame(k) == recipe(k).obj = "orbit_reference_fight"

\* C9 as claimed: the flight frames are computed at most once, and only by a
\* create for a kind that needs a flight frame.
C9_FramesOnlyWhenNeeded ==
    [][flightCalls' # flightCalls =>
          /\ flightCalls = 0
          /\ lastOp'.op = "create"
          /\ NeedsFrame(lastOp'.kind)]_vars

\* C9 as amended: the flight frames are computed at most once, by the first
\* create call whatever kind it is given (a vessel-direct or an unknown kind
\* included); every later create reuses them.
C9_FramesOnceOnFirstCreate ==
    [][/\ flightCalls' # flightCalls => (flightCalls = 0 /\ flightCalls' = 2)
       /\ lastOp'.op = "create" =>
              /\ flightCalls' = 2
              /\ _orbit_reference_fight' # None
              /\ _vessel_reference_flight' # None]_vars

\* Two handles made, both for vessel-direct kinds, and the frames computed.
C9_Witness ==
    /\ Len(handles) = 2
    /\ \A h \in 1..Len(handles) : ~NeedsFrame(kind_of(h))
    /\ flightCalls = 2

\* C12: when every kind the processor declares is known,
\* init_streams_from_telemetry_processor returns a registry whose kinds are
\* exactly the declared ones, and has opened at the transport exactly one
\* feed per declared kind and no other.
C12_OnlyNecessaryHandles ==
    [][(lastOp'.op = "init_streams_from_telemetry_processor"
          /\ lastOp'.declared \subseteq TelemetryType) =>
          /\ lastOp'.raised = None
          /\ keys' = lastOp'.declared
          /\ Len(_streams') = Cardinality(lastOp'.declared)
          /\ lastOp'.made = (Len(feeds) + 1)..Len(feeds')
          /\ Cardinality(lastOp'.made) = Cardinality(lastOp'.declared)
          /\ \A i \in 1..Len(feeds) : feeds'[i] = feeds[i]
          /\ \A k \in lastOp'.declared :
                Cardinality({f \in lastOp'.made :
                    feeds'[f].accessor = <<recipe(k).obj, recipe(k).attr>>}) = 1
          /\ \A i \in 1..Len(_streams') :
                handles'[_streams'[i]].stream \in lastOp'.made]_vars

\* The registry for the kinds OrbitalVelocityStrategy declares has been built.
C12_Witness ==
    /\ lastOp.op = "init_streams_from_telemetry_processor"
    /\ lastOp.raised = None
    /\ lastOp.declared = {"MET", "ORBITAL_SPEED"}
    /\ keys = {"MET", "ORBITAL_SPEED"}
    /\ Len(feeds) = 2

\* C14: start_telemetries calls start() on every registered handle, then
\* pauses, and returns after the pause: every registered handle's start event
\* comes before the one pause, which is the last thing the call does, so a
\* snapshot taken after the call comes after the pause.
C14_StartThenPause ==
    /\ [](lastOp.op = "start_telemetries" =>
            LET ev == lastOp.events
            IN  /\ Len(ev) = Len(_streams) + 1
                /\ ev[Len(ev)] = sleep
                /\ \A i \in 1..(Len(ev) - 1) : ev[i].event = "start"
                /\ \A h \in values :
                      /\ \E i \in 1..(Len(ev) - 1) : ev[i].handle = h
                      /\ feed_of(h).started >= 1)
    /\ [][(lastOp'.op = "collect_data" /\ lastOp.op = "start_telemetries") =>
            (lastOp.events # <<>> /\ lastOp.events[Len(lastOp.events)] = sleep)]_vars

\* start_telemetries has been called on a registry of two handles.
C14_Witness ==
    /\ lastOp.op = "start_telemetries"
    /\ Len(_streams) = 2
    /\ Len(lastOp.events) = 3

C18_NoFeedLeftOnFailure ==
    (lastOp.op = "init_streams_from_telemetry_processor" /\ lastOp.raised # None) =>
        \A f \in lastOp.made : feeds[f].removed >= 1

Abs(x) == IF x < 0 THEN 0 - x ELSE x

\* C13: the value read through a handle the factory made is, of the raw v the
\* feed holds: for MET the integer n with n <= v < n + 1; for the apoapsis and
\* periapsis altitudes an integer within 1/2 of v/1000; for the four speeds
\* and the g-force a multiple of 0.1 within 0.05 of v; for the other five
\* kinds v itself.  Raw 12.99 reads as 12 through MET and raw 1234567 as 1235
\* through the apoapsis altitude.
C13_TransformPerKind ==
    lastOp.op = "collect_data" =>
        \A h \in values :
            LET v == feed_of(h).val
                read == lastOp.snapshot[kind_of(h)]
            IN  /\ kind_of(h) = "MET" =>
                      (read % 1000 = 0 /\ read <= v /\ v < read + 1000)
                /\ kind_of(h) \in {"ORBITAL_APOAPSIS", "ORBITAL_PERIAPSIS"} =>
                      (read % 1000 = 0 /\ Abs(v - 1000 * read) <= 500000)
                /\ kind_of(h) \in {"ORBITAL_SPEED", "SURFACE_SPEED",
                                    "SURFACE_HORIZONTAL_SPEED",
                                    "SURFACE_VERTICAL_SPEED", "G_FORCE"} =>
                      (read % 100 = 0 /\ Abs(v - read) <= 50)
                /\ kind_of(h) \in {"CENTER_OF_MASS", "ATMOSPHERE_DENSITY",
                                    "DYNAMIC_PRESSURE", "STATIC_PRESSURE",
                                    "AERODYNAMIC_FORCE"} =>
                      read = v
                /\ (kind_of(h) = "MET" /\ v = 12990) => read = 12000
                /\ (kind_of(h) = "ORBITAL_APOAPSIS" /\ v = 1234567000) => read = 1235000

\* Raw 1234567 has been read through an apoapsis handle.
C13_Witness ==
    /\ lastOp.op = "collect_data"
    /\ \E h \in values :
          /\ kind_of(h) = "ORBITAL_APOAPSIS"
          /\ feed_of(h).val = 1234567000
          /\ lastOp.snapshot["ORBITAL_APOAPSIS"] = 1235000

(***************************************************************************)
(* Properties of the sampling layer                                        *)
(***************************************************************************)
RowIndex == [i \in 1..Len(_dataframe.rows) |-> _dataframe.rows[i].index]

IsPrefix(a, b) == Len(a) <= Len(b) /\ \A i \in 1..Len(a) : a[i] = b[i]

\* C2: with collect_every_secs = c > 0 and non-negative mets, the first
\* snapshot is accepted and each later one with met M is accepted if and only
\* if M >= lastAcceptedMet + c; for c = 5 and the mets 0,1,4,5,6,9,10 the
\* accepted mets are exactly 0,5,10.
C2_Decimation ==
    /\ [][(lastCall'.op = "collect_data" /\ nonNeg') =>
            IF accepted = <<>>
                  \/ lastCall'.met >= accepted[Len(accepted)] + _collect_every_secs
            THEN accepted' = Append(accepted, lastCall'.met) /\ _lastMet' = lastCall'.met
            ELSE accepted' = accepted /\ _lastMet' = _lastMet]_vars
    /\ []((_collect_every_secs = 5 /\ exIdx = Len(ExampleMets)) => accepted = <<0, 5, 10>>)

\* The example's seven calls have been made on a strategy with c = 5.
C2_Witness ==
    /\ _collect_every_secs = 5
    /\ exIdx = Len(ExampleMets)
    /\ Len(accepted) = 3

\* C3: after N accepted samples the table has exactly N rows whose index
\* values are the accepted mets in order, and each accepted sample leaves the
\* table it found with one row appended.  (Stated for non-negative mets.)
C3_TableFollowsAccepted ==
    /\ [](nonNeg => RowIndex = accepted)
    /\ [][(nonNeg' /\ accepted' # accepted) =>
            /\ Len(_dataframe'.rows) = Len(_dataframe.rows) + 1
            /\ IsPrefix(_dataframe.rows, _dataframe'.rows)]_vars

\* C6: every accepted met is greater than or equal to the one accepted
\* before it.  (Stated for the runs in which every accepted sample got its
\* row.)
C6_LastMetNonDecreasing ==
    RowIndex = accepted =>
        \A i \in 1..Len(accepted) : \A j \in 1..Len(accepted) :
            i < j => accepted[i] <= accepted[j]

\* C10: when a sample is accepted and the sink fails, the row for its met is
\* appended, _lastMet is that met and collect_data returns without raising.
\* (Stated for snapshots that carry the orbital speed and non-negative mets.)
C10_SinkFailureIsContained ==
    [][\A met \in Mets : \A data \in Snapshots(met) : \A sink \in SinkBehaviours \ {"ok"} :
          (/\ met >= 0
           /\ "ORBITAL_SPEED" \in DOMAIN data
           /\ ~out_of_cadence(met)
           /\ keep_sample(met, data, sink)) =>
              /\ Len(_dataframe'.rows) = Len(_dataframe.rows) + 1
              /\ _dataframe'.rows[Len(_dataframe'.rows)].index = met
              /\ _lastMet' = met
              /\ lastCall'.raised = None]_vars

\* C11: in every state of an OrbitalVelocityStrategy, before the first
\* accepted sample included, the table has the index and the column of the
\* strategy's schema: index MET and the single column ORBITAL_SPEED.
C11_ColumnsFixedAtConstruction ==
    _collect_every_secs = 5 =>
        /\ _dataframe.index_name = _create_dataframe.index_name
        /\ _dataframe.columns = _create_dataframe.columns

\* C16: a snapshot the decimation test rejects is discarded: collect_data
\* returns without an exception and without calling _collect_data, and
\* _lastMet, the table and the figure are what they were.
C16_RejectedIsDiscarded ==
    [][(lastCall'.op = "collect_data" /\ out_of_cadence(lastCall'.met)) =>
          /\ lastCall'.raised = None
          /\ ~lastCall'.passed
          /\ _lastMet' = _lastMet
          /\ _dataframe' = _dataframe
          /\ fig' = fig]_vars

\* A snapshot with another met than the last one kept has been rejected by a
\* strategy that holds rows and a figure.
C16_Witness ==
    /\ lastCall.op = "collect_data"
    /\ ~lastCall.passed
    /\ lastCall.met # _lastMet
    /\ Len(_dataframe.rows) >= 1
    /\ fig # None

\* C17: after any calls of collect_data with non-negative mets, those in
\* which _collect_data raises included, _lastMet is -1 exactly when the table
\* has no rows and is the index of the last row otherwise.
C17_LastMetMatchesTable ==
    nonNeg =>
        IF _dataframe.rows = <<>>
        THEN _lastMet = -1
        ELSE _lastMet = _dataframe.rows[Len(_dataframe.rows)].index

\* C19: with non-negative mets passed in any order, the index of the table
\* is strictly increasing and consecutive rows are at least
\* collect_every_secs apart, so no met is the index of two rows.
C19_IndexStrictlyIncreasing ==
    nonNeg =>
        /\ _collect_every_secs > 0
        /\ \A i \in 1..(Len(_dataframe.rows) - 1) :
              _dataframe.rows[i + 1].index >= _dataframe.rows[i].index + _collect_every_secs
        /\ \A i \in 1..Len(_dataframe.rows) : \A j \in 1..Len(_dataframe.rows) :
              i < j => _dataframe.rows[i].index < _dataframe.rows[j].index

\* Two rows are held and the last call passed a met below the last one kept.
C19_Witness ==
    /\ nonNeg
    /\ Len(_dataframe.rows) = 2
    /\ lastCall.op = "collect_data"
    /\ lastCall.met < _lastMet

\* C20: once a sample has been accepted, whatever its met, a later snapshot
\* whose met is below the last accepted met plus collect_every_secs is not
\* accepted.  (Stated for the runs in which every accepted sample got its
\* row.)
C20_OnlyFreshAcceptsUnconditionally ==
    [][(accepted # <<>>
          /\ RowIndex = accepted
          /\ lastCall'.met < accepted[Len(accepted)] + _collect_every_secs) =>
              (accepted' = accepted /\ _lastMet' = _lastMet)]_vars

====
